---- MODULE Spec2Model ----
(***************************************************************************)
(* The RFC822 address parser of lib/address.cc: the tokenizer, the         *)
(* recursive-descent matcher, the quote codec and parse_addresses.         *)
(*                                                                         *)
(* A text (mystring, C string) is a sequence of one-character strings.     *)
(* A C string read at or past its end yields NUL.  A token list is the     *)
(* sequence of its tokens; an anode pointer is an index into it and the    *)
(* null pointer is 0.                                                      *)
(***************************************************************************)
EXTENDS Naturals, Sequences, FiniteSets

VARIABLES
  pc,         \* where the call of parse_addresses stands
  stub,       \* TRUE: the canonicalizer linked in is the identity stub
  input,      \* the value of line when parse_addresses was called
  oldlist,    \* the value of list when parse_addresses was called
  line,       \* mystring& line: the field on call, the display form on success
  list,       \* mystring& list: the canonical address list on success
  tokenlist,  \* anode* tokenlist: the token list, <<>> for the null pointer
  heap,       \* per anode allocated by this call, how often it was deleted
  r,          \* result r of match_addresses
  ret,        \* the value returned
  qpc,        \* where the quote round trip stands
  raw,        \* the raw local-part text handed to quote
  quoted,     \* quote(raw)
  qtoks,      \* what tokenize makes of quoted
  unq         \* unquote of the first token of qtoks

vars == <<pc, stub, input, oldlist, line, list, tokenlist, heap, r, ret,
          qpc, raw, quoted, qtoks, unq>>

\* ------------------------------------------------------------ characters

LSQBRACKET == "["
RSQBRACKET == "]"
QUOTE == "\""
CR == "\n"
LPAREN == "("
RPAREN == ")"

\* the terminating 0 of a C string
NUL == "NUL"
\* stand-ins for two control characters that are not whitespace: 7 and 127
BEL == "BEL"
DEL == "DEL"

\* enum node_type
EMPTY == "EMPTY"
ATOM == "A"
QUOTED_STRING == "Q"
DOMAIN_LITERAL == "D"
COMMENT == "C"
LABRACKET == "<"
RABRACKET == ">"
AT == "@"
COMMA == ","
SEMICOLON == ";"
COLON == ":"
ESCAPE == "\\"
PERIOD == "."
EOT == "$"

\* *ptr for a 1-based cursor into the C string s
CharAt(s, ptr) == IF ptr >= 1 /\ ptr <= Len(s) THEN s[ptr] ELSE NUL

\* mystring(start, end-start): the characters from start up to, not including, end
Slice(s, start, end) == SubSeq(s, start, end - 1)

\* <ctype.h> isspace in the C locale (vertical tab is not in the alphabet used)
isspace(c) == c \in {" ", "\t", "\n", "\f", "\r"}

issymbol(c) ==
  c \in {LPAREN, RPAREN, LABRACKET, RABRACKET, LSQBRACKET, RSQBRACKET,
         AT, COMMA, SEMICOLON, COLON, ESCAPE, QUOTE, PERIOD}

\* codes 0..31 and 127
isctl(c) == c \in {NUL, "\t", "\n", "\f", "\r", BEL, DEL}

isqtext(c) == c # NUL /\ c # QUOTE /\ c # ESCAPE /\ c # CR

isdtext(c) == c # NUL /\ c # LSQBRACKET /\ c # RSQBRACKET /\ c # ESCAPE /\ c # CR

isqpair(s, ptr) ==
  CharAt(s, ptr) # NUL /\ CharAt(s, ptr) = ESCAPE /\ CharAt(s, ptr + 1) # NUL

isatom(ch) == ~(isspace(ch) \/ issymbol(ch) \/ isctl(ch))

\* ------------------------------------------------------------- tokenizer

\* a local variable: e is evaluated once and F applied to its value
Bind(e, F(_)) == CHOOSE v \in {F(x) : x \in {e}} : TRUE

\* a scanner's return value: a new anode and the advanced cursor, or 0
NoNode == [ok |-> FALSE, type |-> EMPTY, str |-> <<>>, ptr |-> 0]
NewNode(t, s, p) == [ok |-> TRUE, type |-> t, str |-> s, ptr |-> p]

RECURSIVE SkipSpace(_, _)
SkipSpace(s, ptr) == IF isspace(CharAt(s, ptr)) THEN SkipSpace(s, ptr + 1) ELSE ptr

RECURSIVE atom_end(_, _)
atom_end(s, ptr) == IF isatom(CharAt(s, ptr)) THEN atom_end(s, ptr + 1) ELSE ptr

tokenize_atom(s, ptr) ==
  IF ~isatom(CharAt(s, ptr)) THEN NoNode
  ELSE Bind(atom_end(s, ptr + 1), LAMBDA end : NewNode(ATOM, Slice(s, ptr, end), end))

RECURSIVE comment_loop(_, _, _, _)
comment_loop(s, start, ptr, count) ==
  Bind(CharAt(s, ptr), LAMBDA ch :
    IF ch = NUL THEN NoNode
    ELSE IF isqpair(s, ptr) THEN comment_loop(s, start, ptr + 2, count)
    ELSE IF ch = LPAREN THEN comment_loop(s, start, ptr + 1, count + 1)
    ELSE IF ch = RPAREN THEN
           IF count - 1 = 0 THEN NewNode(COMMENT, Slice(s, start, ptr + 1), ptr + 1)
           ELSE comment_loop(s, start, ptr + 1, count - 1)
    ELSE IF ch = CR THEN NoNode
    ELSE comment_loop(s, start, ptr + 1, count))

tokenize_comment(s, ptr) ==
  IF CharAt(s, ptr) # LPAREN THEN NoNode ELSE comment_loop(s, ptr, ptr, 0)

\* the for loop of the domain-literal scanner: where it stops
RECURSIVE dtext_end(_, _)
dtext_end(s, ptr) ==
  IF CharAt(s, ptr) = NUL THEN ptr
  ELSE IF isdtext(CharAt(s, ptr)) THEN dtext_end(s, ptr + 1)
  ELSE IF isqpair(s, ptr) THEN dtext_end(s, ptr + 2)
  ELSE ptr

\* the token ends before the closing bracket and the cursor stays on it
tokenize_domain_literal(s, ptr) ==
  IF CharAt(s, ptr) # LSQBRACKET THEN NoNode
  ELSE Bind(SkipSpace(s, dtext_end(s, SkipSpace(s, ptr + 1))), LAMBDA end :
         IF CharAt(s, end) # RSQBRACKET THEN NoNode
         ELSE NewNode(DOMAIN_LITERAL, Slice(s, ptr, end), end))

\* the for loop of the quoted-string scanner: where it stops
RECURSIVE qtext_end(_, _)
qtext_end(s, ptr) ==
  IF CharAt(s, ptr) = NUL THEN ptr
  ELSE IF isqtext(CharAt(s, ptr)) THEN qtext_end(s, ptr + 1)
  ELSE IF isqpair(s, ptr) THEN qtext_end(s, ptr + 2)
  ELSE ptr

\* a quoted-string scanner that takes the end of the text for the closing quote
tokenize_quoted_string_unclosed(s, ptr) ==
  IF CharAt(s, ptr) # QUOTE THEN NoNode
  ELSE Bind(qtext_end(s, ptr + 1), LAMBDA p :
         IF CharAt(s, p) = QUOTE
         THEN NewNode(QUOTED_STRING, Slice(s, ptr, p + 1), p + 1)
         ELSE IF CharAt(s, p) = NUL THEN NewNode(QUOTED_STRING, Slice(s, ptr, p), p)
         ELSE NoNode)

tokenize_quoted_string(s, ptr) ==
  IF CharAt(s, ptr) # QUOTE THEN NoNode
  ELSE Bind(qtext_end(s, ptr + 1), LAMBDA p :
         IF CharAt(s, p) # QUOTE THEN NoNode
         ELSE NewNode(QUOTED_STRING, Slice(s, ptr, p + 1), p + 1))

\* static anode* tokenize(const char* &ptr): the next token, or 0
tokenize_one(s, ptr0) ==
  Bind(SkipSpace(s, ptr0), LAMBDA ptr :
    Bind(CharAt(s, ptr), LAMBDA ch :
      IF ch = NUL THEN NewNode(EOT, <<>>, ptr)
      ELSE IF ch \in {LABRACKET, RABRACKET, AT, COMMA, SEMICOLON, COLON, ESCAPE, PERIOD}
        THEN NewNode(ch, <<>>, ptr + 1)
      ELSE IF ch = LPAREN THEN tokenize_comment(s, ptr)
      ELSE IF ch = LSQBRACKET THEN tokenize_domain_literal(s, ptr)
      ELSE IF ch = QUOTE THEN tokenize_quoted_string(s, ptr)
      ELSE tokenize_atom(s, ptr)))

Token(n) == [type |-> n.type, str |-> n.str]

\* anode* tokenize(const mystring): made is every token linked behind the
\* placeholder head so far.  The result is the list (the head deleted) when
\* the end marker is reached, and 0 with nothing deleted when a scanner
\* returns 0.
RECURSIVE tokenize_loop(_, _, _)
tokenize_loop(s, ptr, made) ==
  Bind(tokenize_one(s, ptr), LAMBDA tmp :
    IF ~tmp.ok THEN [ok |-> FALSE, list |-> <<>>, made |-> made, headfreed |-> FALSE]
    ELSE IF tmp.type = EOT
      THEN [ok |-> TRUE, list |-> Append(made, Token(tmp)),
            made |-> Append(made, Token(tmp)), headfreed |-> TRUE]
    ELSE tokenize_loop(s, tmp.ptr, Append(made, Token(tmp))))

tokenize(str) == tokenize_loop(str, 1, <<>>)

\* ----------------------------------------------------------- quote codec

RECURSIVE quote_loop(_, _)
quote_loop(in, i) ==
  IF i > Len(in) THEN <<>>
  ELSE (IF issymbol(in[i]) THEN <<ESCAPE, in[i]>> ELSE <<in[i]>>) \o quote_loop(in, i + 1)

\* quoted: some character was escaped
quote(in) ==
  IF \E i \in 1..Len(in) : issymbol(in[i])
  THEN <<QUOTE>> \o quote_loop(in, 1) \o <<QUOTE>>
  ELSE in

\* the copy loop of unquote: length characters from ptrin on, a quoted-pair
\* giving its second character.  The tokenizer never ends a quoted-string's
\* content inside a quoted-pair, so length does not run below zero here.
RECURSIVE unquote_loop(_, _, _)
unquote_loop(in, ptrin, length) ==
  IF length = 0 THEN <<>>
  ELSE IF isqpair(in, ptrin)
    THEN <<CharAt(in, ptrin + 1)>> \o
         (IF length <= 2 THEN <<>> ELSE unquote_loop(in, ptrin + 2, length - 2))
  ELSE <<CharAt(in, ptrin)>> \o unquote_loop(in, ptrin + 1, length - 1)

\* modified: the quotes were stripped or a quoted-pair was met; the copy
\* equals the input otherwise
unquote(in) ==
  IF Len(in) >= 2 /\ in[1] = QUOTE /\ in[Len(in)] = QUOTE
  THEN unquote_loop(in, 2, Len(in) - 2)
  ELSE IF \E i \in 1..Len(in) : isqpair(in, i) THEN unquote_loop(in, 1, Len(in))
  ELSE in

\* --------------------------------------------------------------- matcher

\* struct result; next = 0 is the failed result()
Result(n, s, c, l) == [next |-> n, str |-> s, comment |-> c, addr |-> l]
Fail == Result(0, <<>>, <<>>, <<>>)
Matched(res) == res.next # 0

\* node->next
NextOf(toks, node) == IF node < Len(toks) THEN node + 1 ELSE 0

RECURSIVE skipcomment(_, _, _)
skipcomment(toks, node, comment) ==
  IF toks[node].type = COMMENT
  THEN skipcomment(toks, NextOf(toks, node), comment \o <<" ">> \o toks[node].str)
  ELSE [node |-> node, comment |-> comment]

match_sub_domain(toks, node0) ==
  Bind(skipcomment(toks, node0, <<>>), LAMBDA sc :
    IF toks[sc.node].type = ATOM \/ toks[sc.node].type = DOMAIN_LITERAL
    THEN Result(NextOf(toks, sc.node), toks[sc.node].str, sc.comment, toks[sc.node].str)
    ELSE Fail)

\* the for(;;) of match_domain; comment is the local accumulator, added to
\* the result's comment when the loop is left
RECURSIVE domain_loop(_, _, _)
domain_loop(toks, res, comment) ==
  Bind(skipcomment(toks, res.next, comment), LAMBDA sc :
    IF toks[sc.node].type # PERIOD
    THEN [res EXCEPT !.next = sc.node, !.comment = res.comment \o sc.comment]
    ELSE Bind(match_sub_domain(toks, NextOf(toks, sc.node)), LAMBDA r1 :
           IF ~Matched(r1)
           THEN [res EXCEPT !.next = sc.node, !.comment = res.comment \o sc.comment]
           ELSE domain_loop(toks,
                  Result(r1.next, res.str \o <<PERIOD>> \o r1.str, res.comment,
                         res.addr \o <<PERIOD>> \o r1.addr),
                  sc.comment \o r1.comment)))

match_domain(toks, node) ==
  Bind(match_sub_domain(toks, node), LAMBDA res :
    IF ~Matched(res) THEN Fail ELSE domain_loop(toks, res, <<>>))

\* the for(;;) of match_route: [ok, node, str, comment, count]; a domain that
\* does not match after an AT fails the rule
RECURSIVE route_loop(_, _, _, _, _)
route_loop(toks, node, str, comment, count) ==
  IF toks[node].type # AT
  THEN [ok |-> TRUE, node |-> node, str |-> str, comment |-> comment, count |-> count]
  ELSE Bind(match_domain(toks, NextOf(toks, node)), LAMBDA res :
         IF ~Matched(res)
         THEN [ok |-> FALSE, node |-> node, str |-> str, comment |-> comment,
               count |-> count]
         ELSE route_loop(toks, res.next, str \o <<"@">> \o res.str,
                         comment \o res.comment, count + 1))

match_route(toks, node0) ==
  Bind(route_loop(toks, node0, <<>>, <<>>, 0), LAMBDA lp :
    IF ~lp.ok \/ lp.count = 0 THEN Fail
    ELSE Bind(skipcomment(toks, lp.node, lp.comment), LAMBDA sc :
           IF toks[sc.node].type # COLON THEN Fail
           ELSE Result(NextOf(toks, sc.node), lp.str, sc.comment, <<>>)))

match_word(toks, node0) ==
  Bind(skipcomment(toks, node0, <<>>), LAMBDA sc :
    IF toks[sc.node].type = ATOM
    THEN Result(NextOf(toks, sc.node), toks[sc.node].str, sc.comment, toks[sc.node].str)
    ELSE IF toks[sc.node].type = QUOTED_STRING
    THEN Bind(unquote(toks[sc.node].str), LAMBDA addr :
           Result(NextOf(toks, sc.node), quote(addr), sc.comment, addr))
    ELSE Fail)

RECURSIVE local_part_loop(_, _)
local_part_loop(toks, res) ==
  Bind(skipcomment(toks, res.next, res.comment), LAMBDA sc :
    IF toks[sc.node].type # PERIOD
    THEN [res EXCEPT !.next = sc.node, !.comment = sc.comment]
    ELSE Bind(match_word(toks, NextOf(toks, sc.node)), LAMBDA r1 :
           IF ~Matched(r1)
           THEN [res EXCEPT !.next = sc.node, !.comment = sc.comment]
           ELSE local_part_loop(toks,
                  Result(r1.next, res.str \o <<".">> \o r1.str,
                         sc.comment \o r1.comment,
                         res.addr \o <<".">> \o r1.addr))))

match_local_part(toks, node) ==
  Bind(match_word(toks, node), LAMBDA res :
    IF ~Matched(res) THEN Fail ELSE local_part_loop(toks, res))

\* canonicalize(mystring& domain) of canonicalize.h, by its contract: it always
\* succeeds and may rewrite the domain.  The stub is the identity; otherwise an
\* empty domain becomes the default host and any other is qualified by the
\* default domain.
canonicalize(domain) ==
  IF stub THEN domain
  ELSE IF domain = <<>> THEN <<"h">>
  ELSE domain \o <<".", "x">>

\* a loop that canonicalizes every domain it folds into the routing prefix
RECURSIVE addr_spec_loop_canon_each(_, _, _)
addr_spec_loop_canon_each(toks, res, domain) ==
  Bind(skipcomment(toks, res.next, res.comment), LAMBDA sc :
    IF toks[sc.node].type # AT
    THEN [res |-> [res EXCEPT !.next = sc.node, !.comment = sc.comment],
          domain |-> domain]
    ELSE Bind(match_domain(toks, NextOf(toks, sc.node)), LAMBDA r2 :
           IF ~Matched(r2)
           THEN [res |-> [res EXCEPT !.next = sc.node, !.comment = sc.comment],
                 domain |-> domain]
           ELSE addr_spec_loop_canon_each(toks,
                  Result(r2.next,
                         IF domain # <<>>
                           THEN res.str \o <<"@">> \o canonicalize(domain)
                           ELSE res.str,
                         sc.comment \o r2.comment,
                         IF domain # <<>>
                           THEN res.addr \o <<"@">> \o canonicalize(domain)
                           ELSE res.addr),
                  r2.addr)))

\* the for(;;) of match_addr_spec: [res, domain], domain the pending domain
RECURSIVE addr_spec_loop(_, _, _)
addr_spec_loop(toks, res, domain) ==
  Bind(skipcomment(toks, res.next, res.comment), LAMBDA sc :
    IF toks[sc.node].type # AT
    THEN [res |-> [res EXCEPT !.next = sc.node, !.comment = sc.comment],
          domain |-> domain]
    ELSE Bind(match_domain(toks, NextOf(toks, sc.node)), LAMBDA r2 :
           IF ~Matched(r2)
           THEN [res |-> [res EXCEPT !.next = sc.node, !.comment = sc.comment],
                 domain |-> domain]
           ELSE addr_spec_loop(toks,
                  Result(r2.next,
                         IF domain # <<>> THEN res.str \o <<"@">> \o domain
                                          ELSE res.str,
                         sc.comment \o r2.comment,
                         IF domain # <<>> THEN res.addr \o <<"@">> \o domain
                                          ELSE res.addr),
                  r2.addr)))

match_addr_spec(toks, node) ==
  Bind(match_local_part(toks, node), LAMBDA r0 :
    IF ~Matched(r0) THEN Fail
    ELSE Bind(addr_spec_loop(toks, r0, <<>>), LAMBDA lp :
           Bind(canonicalize(lp.domain), LAMBDA domain :
             Result(lp.res.next, lp.res.str \o <<"@">> \o domain, lp.res.comment,
                    lp.res.addr \o <<"@">> \o domain \o <<"\n">>))))

\* r1 is the optional route: its comment is empty when it did not match
match_route_addr(toks, node0) ==
  Bind(skipcomment(toks, node0, <<>>), LAMBDA sc0 :
    IF toks[sc0.node].type # LABRACKET THEN Fail
    ELSE Bind(match_route(toks, NextOf(toks, sc0.node)), LAMBDA r1 :
         Bind(match_addr_spec(toks, IF Matched(r1) THEN r1.next
                                    ELSE NextOf(toks, sc0.node)), LAMBDA r2 :
           IF ~Matched(r2) THEN Fail
           ELSE Bind(skipcomment(toks, r2.next,
                                 sc0.comment \o r1.comment \o r2.comment), LAMBDA sc :
                  IF toks[sc.node].type # RABRACKET THEN Fail
                  ELSE Result(NextOf(toks, sc.node),
                              <<"<">> \o r2.str \o <<">">> \o sc.comment,
                              <<>>, r2.addr)))))

RECURSIVE phrase_loop(_, _)
phrase_loop(toks, r1) ==
  Bind(match_word(toks, r1.next), LAMBDA r2 :
    IF ~Matched(r2) THEN r1
    ELSE phrase_loop(toks, Result(r2.next, r1.str \o <<" ">> \o r2.str,
                                  r1.comment \o r2.comment, r1.addr)))

match_phrase(toks, node) ==
  Bind(match_word(toks, node), LAMBDA r1 :
    IF ~Matched(r1) THEN Fail ELSE phrase_loop(toks, r1))

match_route_spec(toks, node0) ==
  Bind(match_phrase(toks, node0), LAMBDA r1 :
    Bind(match_route_addr(toks, IF Matched(r1) THEN r1.next ELSE node0), LAMBDA r2 :
      IF ~Matched(r2) THEN Fail
      ELSE IF ~Matched(r1) THEN r2
      ELSE [r2 EXCEPT !.str = r1.str \o r1.comment \o <<" ">> \o r2.str \o r2.comment]))

match_mailbox(toks, node) ==
  Bind(match_route_spec(toks, node), LAMBDA ra :
    IF Matched(ra) THEN ra ELSE match_addr_spec(toks, node))

\* the inner for(;;) of match_mailboxes and match_addresses: comments go to
\* the display string, commas are passed over
RECURSIVE skip_separators(_, _, _)
skip_separators(toks, node, str) ==
  Bind(skipcomment(toks, node, str), LAMBDA sc :
    IF toks[sc.node].type = COMMA
    THEN skip_separators(toks, NextOf(toks, sc.node), sc.comment)
    ELSE sc)

\* the outer for(;;) of match_mailboxes: [r1, node], node where the loop left
RECURSIVE mailboxes_loop(_, _)
mailboxes_loop(toks, r1) ==
  Bind(skip_separators(toks, r1.next, r1.str), LAMBDA sep :
    IF toks[sep.node].type = EOT
    THEN [r1 |-> [r1 EXCEPT !.str = sep.comment], node |-> sep.node]
    ELSE Bind(match_mailbox(toks, sep.node), LAMBDA r2 :
           IF ~Matched(r2)
           THEN [r1 |-> [r1 EXCEPT !.str = sep.comment], node |-> sep.node]
           ELSE mailboxes_loop(toks,
                  Result(r2.next, sep.comment \o <<",", " ">> \o r2.str \o r2.comment,
                         r1.comment, r1.addr \o r2.addr))))

match_mailboxes(toks, node0) ==
  Bind(match_mailbox(toks, node0), LAMBDA r0 :
    IF ~Matched(r0) THEN Fail
    ELSE Bind(mailboxes_loop(toks, Result(r0.next, r0.str \o r0.comment, <<>>, r0.addr)),
              LAMBDA lp :
           Bind(skipcomment(toks, lp.node, lp.r1.str), LAMBDA sc :
             Result(sc.node, sc.comment, lp.r1.comment, lp.r1.addr))))

\* r2 is the optional list of mailboxes: its strings are empty when it did
\* not match
match_group(toks, node0) ==
  Bind(match_phrase(toks, node0), LAMBDA r1 :
    IF ~Matched(r1) THEN Fail
    ELSE IF toks[r1.next].type # COLON THEN Fail
    ELSE Bind(match_mailboxes(toks, NextOf(toks, r1.next)), LAMBDA r2 :
         Bind(skipcomment(toks, IF Matched(r2) THEN r2.next ELSE NextOf(toks, r1.next),
                          <<>>), LAMBDA sc :
           IF toks[sc.node].type # SEMICOLON THEN Fail
           ELSE Result(NextOf(toks, sc.node),
                       r1.str \o <<":", " ">> \o r2.str \o r2.comment \o sc.comment
                              \o <<";">>,
                       <<>>, r2.addr))))

match_address(toks, node) ==
  Bind(match_group(toks, node), LAMBDA ra :
    IF Matched(ra) THEN ra ELSE match_mailbox(toks, node))

\* the outer for(;;) of match_addresses: [r1, node], node where the loop left
RECURSIVE addresses_loop(_, _)
addresses_loop(toks, r1) ==
  Bind(skip_separators(toks, r1.next, r1.str), LAMBDA sep :
    IF toks[sep.node].type = EOT
    THEN [r1 |-> [r1 EXCEPT !.str = sep.comment], node |-> sep.node]
    ELSE Bind(match_address(toks, sep.node), LAMBDA r2 :
           IF ~Matched(r2)
           THEN [r1 |-> [r1 EXCEPT !.str = sep.comment], node |-> sep.node]
           ELSE addresses_loop(toks,
                  Result(r2.next, sep.comment \o <<",", " ">> \o r2.str \o r2.comment,
                         r1.comment, r1.addr \o r2.addr))))

\* match_addresses up to its last test: the result gathered and the node
\* reached after the trailing comments, [ok |-> FALSE] when no address matched
addresses_scan(toks, node0) ==
  Bind(match_address(toks, node0), LAMBDA r0 :
    IF ~Matched(r0) THEN [ok |-> FALSE, r1 |-> Fail, node |-> 0]
    ELSE Bind(addresses_loop(toks, Result(r0.next, r0.str \o r0.comment, <<>>, r0.addr)),
              LAMBDA lp :
           Bind(skipcomment(toks, lp.node, lp.r1.str), LAMBDA sc :
             [ok |-> TRUE, r1 |-> [lp.r1 EXCEPT !.str = sc.comment], node |-> sc.node])))

\* the rule without its test for the end of the tokens
match_addresses_no_eof(toks, node0) ==
  Bind(addresses_scan(toks, node0), LAMBDA sc :
    IF ~sc.ok THEN Fail ELSE sc.r1)

match_addresses(toks, node0) ==
  Bind(addresses_scan(toks, node0), LAMBDA sc :
    IF ~sc.ok THEN Fail
    ELSE IF NextOf(toks, sc.node) # 0 THEN Fail
    ELSE sc.r1)

\* parse_addresses as one function of its arguments, for calling it again
parse_addresses(l, lst) ==
  Bind(tokenize(l), LAMBDA t :
    IF ~t.ok THEN [ret |-> FALSE, line |-> l, list |-> lst]
    ELSE Bind(match_addresses(t.list, 1), LAMBDA res :
           IF Matched(res) THEN [ret |-> TRUE, line |-> res.str, list |-> res.addr]
           ELSE [ret |-> FALSE, line |-> l, list |-> lst]))

\* ---------------------------------------------------------------- inputs

MaxLen == 3
MaxFrags == 3
MaxRoute == 2
MaxRaw == 3

\* every text of at most n characters of the alphabet A
Texts(A, n) == UNION {[1..k -> A] : k \in 0..n}

RECURSIVE Flatten(_)
Flatten(ss) == IF ss = <<>> THEN <<>> ELSE Head(ss) \o Flatten(Tail(ss))

\* every concatenation of at most n of the pieces P
Joined(P, n) == {Flatten(f) : f \in Texts(P, n)}

Chars == {"a", " ", "\n", BEL, "(", ")", "<", ">", "[", "]", "@", ",", ";", ":",
          "\\", "\"", "."}

\* the characters the scanners tell apart, and those the rules tell apart
LexChars == {"a", "\n", BEL, "(", ")", "[", "]", "\\", "\""}
GramChars == {"a", " ", "<", ">", "@", ",", ";", ":", "."}

Pieces == {<<"a", " ">>, <<"(", "c", ")">>, <<"b", "@", "c">>,
           <<"<", "b", "@", "c", ">">>, <<"<", "@", "d", ":", "b", "@", "c", ">">>,
           <<":">>, <<";">>, <<",">>}

\* local-parts: atoms, dotted atoms, a commented atom, and quoted-strings
\* holding a space, a symbol, nothing, and an escaped line feed
PlainLocals == {<<"a">>, <<"a", ".", "b">>}
Locals == PlainLocals \cup
          {<<"(", "c", ")", "a">>, <<"\"", "a", " ", "b", "\"">>,
           <<"\"", "a", "\\", "@", "b", "\"">>, <<"\"", "\"">>,
           <<"\"", "a", "\\", "\n", "b", "\"">>}

\* domains: atoms, dotted atoms and domain-literals
PlainDomains == {<<"b">>, <<"c", ".", "d">>}
Domains == PlainDomains \cup {<<"[", "b", "]">>, <<"[", " ", "1", ".", "2", " ", "]">>}

\* local@d1@...@dn
AddrSpecText(local, ds) ==
  local \o Flatten([i \in 1..Len(ds) |-> <<"@">> \o ds[i]])

AddrSpecs == {AddrSpecText(l, ds) : l \in Locals, ds \in Texts(Domains, MaxRoute)}

\* two addr-specs of one domain each, joined by a comma
AddrPairs ==
  LET one == {AddrSpecText(l, <<d>>) : l \in Locals, d \in PlainDomains}
  IN {x \o <<",">> \o y : x \in one, y \in one}

\* groups: phrase: members;
Groups ==
  LET phrases == {<<"a">>, <<"(", "c", ")", "a">>, <<"a", " ", "(", "c", ")", "b">>,
                  <<"\"", "a", " ", "b", "\"">>}
      members == {<<>>, <<"(", "d", ")">>, <<"b", "@", "c">>,
                  <<"b", "@", "c", ",", "<", "b", "@", "c", ">">>,
                  <<"b", "@", "c", "(", "d", ")", ",">>}
  IN {p \o <<":">> \o m \o <<";">> : p \in phrases, m \in members}

Inputs ==
  Texts(Chars, MaxLen - 1) \cup Texts(LexChars, MaxLen) \cup Texts(GramChars, MaxLen)
    \cup Joined(Pieces, MaxFrags) \cup AddrSpecs \cup AddrPairs \cup Groups

OldList == <<"o", "@", "l", "d", "\n">>

RawChars == {"a", " ", BEL, "@", "\\", "\"", ".", "("}
RawTexts == Texts(RawChars, MaxRaw)

\* ------------------------------------------------------- parse_addresses

Init ==
  /\ pc = "call"
  /\ stub \in BOOLEAN
  /\ input \in Inputs
  /\ line = input
  /\ oldlist = OldList
  /\ list = oldlist
  /\ tokenlist = <<>>
  /\ heap = <<>>
  /\ r = Fail
  /\ ret = FALSE
  /\ qpc = "off" /\ raw = <<>> /\ quoted = <<>> /\ qtoks = <<>> /\ unq = <<>>

qvars == <<qpc, raw, quoted, qtoks, unq>>

\* the anodes allocated by tokenize: the placeholder head, then one per token
Allocated(t) ==
  <<IF t.headfreed THEN 1 ELSE 0>> \o [i \in 1..Len(t.made) |-> 0]

\* tokenize returns a list
Tokenize ==
  /\ pc = "call"
  /\ \E t \in {tokenize(line)} :
        /\ t.ok
        /\ tokenlist' = t.list
        /\ heap' = Allocated(t)
  /\ pc' = "match"
  /\ UNCHANGED <<stub, input, oldlist, line, list, r, ret, qvars>>

\* tokenize returns 0: if(!tokenlist) return false
LexicalFailure ==
  /\ pc = "call"
  /\ \E t \in {tokenize(line)} :
        /\ ~t.ok
        /\ tokenlist' = <<>>
        /\ heap' = Allocated(t)
  /\ ret' = FALSE
  /\ pc' = "done"
  /\ UNCHANGED <<stub, input, oldlist, line, list, r, qvars>>

Match ==
  /\ pc = "match"
  /\ r' = match_addresses(tokenlist, 1)
  /\ pc' = "free"
  /\ UNCHANGED <<stub, input, oldlist, line, list, tokenlist, heap, ret, qvars>>

\* del_tokens(tokenlist): every node from tokenlist on is deleted; the list
\* lies behind the head in the heap
del_tokens(h, toks) ==
  [i \in 1..Len(h) |-> IF i >= 2 /\ i <= Len(toks) + 1 THEN h[i] + 1 ELSE h[i]]

DelTokens ==
  /\ pc = "free"
  /\ heap' = del_tokens(heap, tokenlist)
  /\ pc' = "return"
  /\ UNCHANGED <<stub, input, oldlist, line, list, tokenlist, r, ret, qvars>>

ReturnSuccess ==
  /\ pc = "return"
  /\ Matched(r)
  /\ line' = r.str
  /\ list' = r.addr
  /\ ret' = TRUE
  /\ pc' = "done"
  /\ UNCHANGED <<stub, input, oldlist, tokenlist, heap, r, qvars>>

\* a failure path that copies the result out before testing it
ReturnFailure_assigns ==
  /\ pc = "return"
  /\ ~Matched(r)
  /\ line' = r.str
  /\ list' = r.addr
  /\ ret' = FALSE
  /\ pc' = "done"
  /\ UNCHANGED <<stub, input, oldlist, tokenlist, heap, r, qvars>>

ReturnFailure ==
  /\ pc = "return"
  /\ ~Matched(r)
  /\ ret' = FALSE
  /\ pc' = "done"
  /\ UNCHANGED <<stub, input, oldlist, line, list, tokenlist, heap, r, qvars>>

Next ==
  \/ Tokenize
  \/ LexicalFailure
  \/ Match
  \/ DelTokens
  \/ ReturnSuccess
  \/ ReturnFailure

Spec == Init /\ [][Next]_vars

\* ------------------------------------------------------ quote round trip

QInit ==
  /\ qpc = "quote"
  /\ raw \in RawTexts
  /\ quoted = <<>> /\ qtoks = <<>> /\ unq = <<>>
  /\ pc = "off" /\ stub = TRUE /\ input = <<>> /\ oldlist = <<>> /\ line = <<>>
  /\ list = <<>> /\ tokenlist = <<>> /\ heap = <<>> /\ r = Fail /\ ret = FALSE

pvars == <<pc, stub, input, oldlist, line, list, tokenlist, heap, r, ret>>

Quote ==
  /\ qpc = "quote"
  /\ quoted' = quote(raw)
  /\ qpc' = "tokenize"
  /\ UNCHANGED <<raw, qtoks, unq, pvars>>

Retokenize ==
  /\ qpc = "tokenize"
  /\ qtoks' = tokenize(quoted).list
  /\ qpc' = "unquote"
  /\ UNCHANGED <<raw, quoted, unq, pvars>>

\* unquote of the first token, when it is a word
Unquote ==
  /\ qpc = "unquote"
  /\ qtoks # <<>>
  /\ qtoks[1].type \in {ATOM, QUOTED_STRING}
  /\ unq' = unquote(qtoks[1].str)
  /\ qpc' = "done"
  /\ UNCHANGED <<raw, quoted, qtoks, pvars>>

QNext == Quote \/ Retokenize \/ Unquote

SpecQuote == QInit /\ [][QNext]_vars

\* ---------------------------------------------------------------- claims

Count(c, s) == Cardinality({i \in 1..Len(s) : s[i] = c})
Has(c, s) == \E i \in 1..Len(s) : s[i] = c
TypeCount(ty, toks) == Cardinality({i \in 1..Len(toks) : toks[i].type = ty})
IsSubstring(p, s) ==
  \E i \in 0..Len(s) : i + Len(p) <= Len(s) /\ SubSeq(s, i + 1, i + Len(p)) = p

\* the last token before the end marker that is neither a comment nor a comma
RECURSIVE LastSignificant(_, _)
LastSignificant(toks, i) ==
  IF i = 0 THEN EMPTY
  ELSE IF toks[i].type \in {COMMENT, COMMA, EOT} THEN LastSignificant(toks, i - 1)
  ELSE toks[i].type

\* tokens no rule can take: an escape, an angle bracket or semicolon without
\* its partner, or an opener (or separator inside an address) as the last one
Unconsumable(toks) ==
  \/ TypeCount(ESCAPE, toks) > 0
  \/ TypeCount(LABRACKET, toks) # TypeCount(RABRACKET, toks)
  \/ TypeCount(SEMICOLON, toks) > TypeCount(COLON, toks)
  \/ LastSignificant(toks, Len(toks)) \in {LABRACKET, AT, COLON, PERIOD}

\* the addresses rule stopped on a token that is not the end marker
LeftOver(toks) ==
  LET sc == addresses_scan(toks, 1) IN sc.ok /\ toks[sc.node].type # EOT

\* C1: parse_addresses returns success only when the addresses rule consumed
\* every token up to the end marker; when a token is left over, or the tokens
\* hold one that no rule can take, it returns failure and hands out nothing.
C1_AllOrNothing ==
  pc = "done" /\ tokenlist # <<>> =>
    /\ ret => addresses_scan(tokenlist, 1).ok /\ ~LeftOver(tokenlist)
    /\ LeftOver(tokenlist) \/ Unconsumable(tokenlist) =>
         ~ret /\ line = input /\ list = oldlist

C1_Witness ==
  /\ pc = "done" /\ tokenlist # <<>> /\ LeftOver(tokenlist)
  /\ TypeCount(ATOM, tokenlist) >= 2
  /\ ~ret

\* C2: when parse_addresses has returned, every anode this call allocated
\* has been deleted exactly once, on every exit path.
C2_TokensReleasedOnce ==
  pc = "done" => \A i \in 1..Len(heap) : heap[i] = 1

\* C3: a well-formed domain-literal becomes exactly one domain-literal token
\* covering the construct, tokenizing goes on after the closing bracket, and
\* local@[literal] parses with the literal as its domain.
C3_DomainLiteralAccepted ==
  \A l \in PlainLocals : \A d \in Domains \ PlainDomains :
    input = AddrSpecText(l, <<d>>) =>
      /\ pc \notin {"call"} =>
           /\ tokenlist # <<>>
           /\ TypeCount(DOMAIN_LITERAL, tokenlist) = 1
           /\ \E i \in 1..Len(tokenlist) :
                tokenlist[i] = [type |-> DOMAIN_LITERAL, str |-> d]
      /\ pc = "done" =>
           ret /\ list = l \o <<"@">> \o canonicalize(d) \o <<"\n">>

\* C4: for a raw text s without line breaks, tokenizing quote(s) gives one
\* atom or quoted-string token (then the end marker) whose unquoted content
\* is s.
C4_QuoteRoundTrip ==
  /\ qpc \in {"unquote", "done"} =>
       /\ Len(qtoks) = 2
       /\ qtoks[1].type \in {ATOM, QUOTED_STRING}
       /\ unquote(qtoks[1].str) = raw
  /\ qpc = "done" => unq = raw

\* the inputs that are one addr-spec, and those that are two joined by a comma
OneAddress(s) == s \in AddrSpecs
TwoAddresses(s) == s \in AddrPairs

\* C5: on success canonical holds one line per address: as many line breaks
\* as addresses were matched, the last character being one of them.
C5_OneLinePerAddress ==
  pc = "done" /\ ret =>
    /\ OneAddress(input) => Count("\n", list) = 1 /\ list[Len(list)] = "\n"
    /\ TwoAddresses(input) => Count("\n", list) = 2 /\ list[Len(list)] = "\n"

\* local@d1@...@d(n-1)@canon(dn), canon of the empty text when n = 0
Routed(l, ds) ==
  IF ds = <<>> THEN l \o <<"@">> \o canonicalize(<<>>)
  ELSE AddrSpecText(l, SubSeq(ds, 1, Len(ds) - 1))
         \o <<"@">> \o canonicalize(ds[Len(ds)])

\* C6: for the addr-spec local@d1@...@dn the canonical output is
\* local@d1@...@d(n-1)@canon(dn) and a line break, the display output the same
\* without the line break: the canonicalizer acts once, on the last domain
\* (on the empty text when there is no domain), and on no other.
C6_SourceRoute ==
  \A l \in PlainLocals : \A ds \in Texts(PlainDomains, MaxRoute) :
    input = AddrSpecText(l, ds) /\ pc = "done" =>
      /\ ret
      /\ list = Routed(l, ds) \o <<"\n">>
      /\ line = Routed(l, ds)

C6_Witness ==
  /\ pc = "done" /\ ret /\ ~stub
  /\ input = <<"a", "@", "b", "@", "c", ".", "d">>
  /\ list = <<"a", "@", "b", "@", "c", ".", "d", ".", "x", "\n">>

\* C7: line and list are assigned on the success path only: until the call
\* has returned success they hold the values they had when it was made.
C7_FailureLeavesOutputs ==
  ~(pc = "done" /\ ret) => line = input /\ list = oldlist

C7_Witness ==
  /\ pc = "done" /\ ~ret /\ tokenlist # <<>> /\ ~Matched(r)
  /\ list = OldList /\ line = input

\* C8: on success the text of every comment token of the input appears in
\* the display output.
C8_CommentsPreserved ==
  pc = "done" /\ ret =>
    \A i \in 1..Len(tokenlist) :
      tokenlist[i].type = COMMENT => IsSubstring(tokenlist[i].str, line)

\* the lexical errors that show in the text alone: a comment that cannot
\* balance, a quoted-string that cannot close, a domain-literal without its
\* closing bracket, a control character outside every quoted construct
UnbalancedComment(s) ==
  /\ ~Has(QUOTE, s) /\ ~Has(LSQBRACKET, s) /\ ~Has(ESCAPE, s)
  /\ Count(LPAREN, s) > Count(RPAREN, s)
UnclosedQuote(s) ==
  /\ ~Has(LPAREN, s) /\ ~Has(LSQBRACKET, s) /\ ~Has(ESCAPE, s)
  /\ Count(QUOTE, s) % 2 = 1
UnclosedLiteral(s) ==
  /\ ~Has(LPAREN, s) /\ ~Has(QUOTE, s) /\ ~Has(ESCAPE, s)
  /\ Count(LSQBRACKET, s) > Count(RSQBRACKET, s)
BareControl(s) ==
  /\ ~Has(LPAREN, s) /\ ~Has(QUOTE, s) /\ ~Has(LSQBRACKET, s)
  /\ (Has(BEL, s) \/ Has(DEL, s))
LexicalError(s) ==
  UnbalancedComment(s) \/ UnclosedQuote(s) \/ UnclosedLiteral(s) \/ BareControl(s)

C10_DisplayFixedPoint ==
  pc = "done" /\ ret /\ stub =>
    parse_addresses(line, oldlist) = [ret |-> TRUE, line |-> line, list |-> list]

====
